---- MODULE Spec2Model ----
(***************************************************************************)
(* Network turn-synchronisation layer of the chess GUI (src/src/main.rs):  *)
(* the packet codec, the peer link with its background receive thread, the *)
(* Start handshake (Network::init) and the Phase state machine driven by   *)
(* MainState::update.                                                      *)
(*                                                                         *)
(* Two processes are modelled, each with its own rules engine, inbound     *)
(* queue (cache), receive thread and socket direction (wire).  The rules   *)
(* engine (crate chess) and the wire schemas (crate chess_networking) are  *)
(* external collaborators: they are modelled from their contract in the    *)
(* specification (section 6) by a small deterministic game.                *)
(*                                                                         *)
(* Assumption taken from section 6 of the specification: every read of the *)
(* receive thread yields exactly one encoded message (wire is a sequence   *)
(* of whole buffers).  Player names and the view-only fields (textures,    *)
(* text_prompt) are left out.                                              *)
(***************************************************************************)
EXTENDS Integers, Sequences, FiniteSets, TLC

\* ------------------------------------------------------------- bounds
\* Ply count at which the modelled rules engine declares a draw.
DrawPly == 3
\* Rematches (Space in Phase::End) a process may start.
MaxRematch == 1
\* Buffers the adversarial peer keeps queued towards the process.
MaxQueue == 2

\* ------------------------------------------------------------- values
Procs == {"p1", "p2"}

Peer(p) == IF p = "p1" THEN "p2" ELSE "p1"

None == "None"

Colors == {"White", "Black"}

Other(c) == IF c = "White" THEN "Black" ELSE "White"

\* ------------------------------------------------------------- packets
StartPkt(is_white) == [kind |-> "Start", is_white |-> is_white]

MovePkt(from, to, promotion) ==
    [kind |-> "Move", from |-> from, to |-> to, promotion |-> promotion,
     forfeit |-> FALSE, offer_draw |-> FALSE]

AckPkt(ok, end_state) == [kind |-> "Ack", ok |-> ok, end_state |-> end_state]

NoPkt == [kind |-> "NoPkt"]

\* Wire values carry their MessagePack type.
Nil == <<"nil">>

WBool(b) == <<"bool", b>>

WPos(sq) == <<"pos", sq>>

WOpt(v) == IF v = None THEN Nil ELSE <<"str", v>>

IsOpt(w) == w[1] \in {"nil", "str"}

UnOpt(w) == IF w[1] = "nil" THEN None ELSE w[2]

\* Start/Move/Ack -> bytes: a map from field names to values.
EncodeStart(pkt) ==
    [is_white |-> WBool(pkt.is_white), name |-> Nil, fen |-> Nil,
     time |-> Nil, inc |-> Nil]

EncodeMove(pkt) ==
    [from |-> WPos(pkt.from), to |-> WPos(pkt.to),
     promotion |-> WOpt(pkt.promotion), forfeit |-> WBool(pkt.forfeit),
     offer_draw |-> WBool(pkt.offer_draw)]

EncodeAck(pkt) == [ok |-> WBool(pkt.ok), end_state |-> WOpt(pkt.end_state)]

\* impl TryFrom<PacketType> for Vec<u8>
Encode(pkt) ==
    CASE pkt.kind = "Start" -> EncodeStart(pkt)
      [] pkt.kind = "Move" -> EncodeMove(pkt)
      [] pkt.kind = "Ack" -> EncodeAck(pkt)

\* A schema parses a buffer when its required fields are there with the
\* right types; an Option field may be absent.
HasTyped(data, f, ty) == f \in DOMAIN data /\ data[f][1] = ty

OptOk(data, f) == f \in DOMAIN data => IsOpt(data[f])

GetOpt(data, f) == IF f \in DOMAIN data THEN UnOpt(data[f]) ELSE None

StartParses(data) ==
    /\ HasTyped(data, "is_white", "bool")
    /\ \A f \in {"name", "fen", "time", "inc"} : OptOk(data, f)

MoveParses(data) ==
    /\ HasTyped(data, "from", "pos")
    /\ HasTyped(data, "to", "pos")
    /\ OptOk(data, "promotion")
    /\ HasTyped(data, "forfeit", "bool")
    /\ HasTyped(data, "offer_draw", "bool")

AckParses(data) ==
    /\ HasTyped(data, "ok", "bool")
    /\ OptOk(data, "end_state")

DecodeStart(data) == StartPkt(data.is_white[2])

DecodeMove(data) ==
    [kind |-> "Move", from |-> data.from[2], to |-> data.to[2],
     promotion |-> GetOpt(data, "promotion"), forfeit |-> data.forfeit[2],
     offer_draw |-> data.offer_draw[2]]

DecodeAck(data) == AckPkt(data.ok[2], GetOpt(data, "end_state"))

\* Mutant: the schemas are tried in the order Ack, Move, Start.
Decode_ack_first(data) ==
    IF AckParses(data) THEN [ok |-> TRUE, pkt |-> DecodeAck(data)]
    ELSE IF MoveParses(data) THEN [ok |-> TRUE, pkt |-> DecodeMove(data)]
    ELSE IF StartParses(data) THEN [ok |-> TRUE, pkt |-> DecodeStart(data)]
    ELSE [ok |-> FALSE, pkt |-> NoPkt]

\* impl TryFrom<&[u8]> for PacketType: Start, then Move, then Ack.
Decode(data) ==
    IF StartParses(data) THEN [ok |-> TRUE, pkt |-> DecodeStart(data)]
    ELSE IF MoveParses(data) THEN [ok |-> TRUE, pkt |-> DecodeMove(data)]
    ELSE IF AckParses(data) THEN [ok |-> TRUE, pkt |-> DecodeAck(data)]
    ELSE [ok |-> FALSE, pkt |-> NoPkt]

\* Bytes that match no schema (a corrupt frame, or the empty read at EOF).
Garbage == [junk |-> Nil]

\* ------------------------------------------------------------- rules engine
\* A small deterministic game standing for the chess crate: the side to
\* move owns one piece on its home square, which may make a quiet move, a
\* promoting move or a mating move; the game is drawn at DrawPly plies.
WhiteHome == <<1, 0>>

BlackHome == <<6, 7>>

QuietSq == <<1, 2>>

PromoSq == <<0, 7>>

MateSq == <<7, 7>>

Home(c) == IF c = "White" THEN WhiteHome ELSE BlackHome

Squares == {WhiteHome, BlackHome, QuietSq, PromoSq, MateSq}

NewGame == [turn |-> "White", hist |-> <<>>, status |-> "InProgress"]

GenerateValidMoves(b) ==
    IF b.status # "InProgress" THEN {}
    ELSE {[from |-> Home(b.turn), to |-> t] : t \in {QuietSq, PromoSq, MateSq}}

StatusAfter(hist, to) ==
    IF to = MateSq THEN "Checkmate"
    ELSE IF Len(hist) >= DrawPly THEN "Draw"
    ELSE "InProgress"

\* Chess::move_piece: Valid(status) with the move applied, or a rejection
\* that leaves the board as it was.
MovePiece(b, from, to) ==
    IF [from |-> from, to |-> to] \in GenerateValidMoves(b)
    THEN LET h == Append(b.hist, [from |-> from, to |-> to, promo |-> None])
         IN  IF to = PromoSq
             THEN [valid |-> TRUE,
                   board |-> [turn |-> b.turn, hist |-> h,
                              status |-> "AwaitingPromotion"]]
             ELSE [valid |-> TRUE,
                   board |-> [turn |-> Other(b.turn), hist |-> h,
                              status |-> StatusAfter(h, to)]]
    ELSE [valid |-> FALSE, board |-> b]

\* Chess::promote_piece: completes the pending promotion.
PromotePiece(b, piece) ==
    LET n == Len(b.hist)
        h == [b.hist EXCEPT ![n].promo = piece]
    IN  [turn |-> Other(b.turn), hist |-> h,
         status |-> StatusAfter(h, b.hist[n].to)]

\* ------------------------------------------------------------- players
MkPlayers(white_local, black_local) ==
    [white |-> [color |-> "White", local |-> white_local],
     black |-> [color |-> "Black", local |-> black_local]]

\* No Players record yet (PlayerHandler::new has not returned).
NoPlayers == MkPlayers(FALSE, FALSE)

\* Mutant: only White is local in a Local game.
LocalPlayers_white_only == MkPlayers(TRUE, FALSE)

\* PlayerHandler::new, GameType::Local
LocalPlayers == MkPlayers(TRUE, TRUE)

\* Mutant: the Host takes both colours.
HostPlayers_both(start) == MkPlayers(TRUE, TRUE)

\* Network::init, Host branch: White is local whatever the Start received.
HostPlayers(start) == MkPlayers(TRUE, FALSE)

\* Mutant: the Client takes the colour the reply claims.
ClientPlayers_same_colour(start) ==
    IF start.is_white THEN MkPlayers(TRUE, FALSE) ELSE MkPlayers(FALSE, TRUE)

\* Network::init, Client branch: decided by the reply's is_white.
ClientPlayers(start) ==
    IF start.is_white THEN MkPlayers(FALSE, TRUE) ELSE MkPlayers(TRUE, FALSE)

\* The Start packet both branches of Network::init send.
InitStartPacket == StartPkt(TRUE)

get_player(pl, color) == IF color = "White" THEN pl.white ELSE pl.black

\* ------------------------------------------------------------- phase
NoMove == [kind |-> "NoMove", from |-> <<0, 0>>, to |-> <<0, 0>>,
           promotion |-> None]

Builtin(mv) ==
    [kind |-> "Builtin", from |-> mv.from, to |-> mv.to, promotion |-> None]

Network(pkt) ==
    [kind |-> "Network", from |-> pkt.from, to |-> pkt.to,
     promotion |-> pkt.promotion]

PhaseMove == [tag |-> "Move", mv |-> NoMove, status |-> None]

PhaseValidate(mv) == [tag |-> "Validate", mv |-> mv, status |-> None]

PhaseEnd(status) == [tag |-> "End", mv |-> NoMove, status |-> status]

\* Mutant: the piece named in the packet is ignored.
promotion_always_queen(mv) == "Queen"

\* MoveKind::promotion
promotion(mv) ==
    IF mv.kind = "Builtin" THEN "Queen"
    ELSE IF mv.promotion # None THEN mv.promotion
    ELSE "Queen"

NoMoves == [some |-> FALSE, moves |-> {}]

SomeMoves(ms) == [some |-> TRUE, moves |-> ms]

NoSquare == [some |-> FALSE, sq |-> <<0, 0>>]

SomeSquare(sq) == [some |-> TRUE, sq |-> sq]

\* History of a main-thread step: the operation, the packet it wrote, the
\* packet get_packet returned to it and, for client_validate, the move's
\* origin, whether the turn was the local player's, and the engine's verdict.
Step(op, sent) ==
    [op |-> op, sent |-> sent, got |-> NoPkt, kind |-> "NoMove",
     turn_local |-> FALSE, valid |-> FALSE]

NoStep == Step("none", NoPkt)

\* ------------------------------------------------------------- state
VARIABLES
    game_type,        \* GameType per process: "Host", "Client", "Local"; "Peer": not this program
    pc,               \* where the main thread is: new_init/new_wait (PlayerHandler::new inside
                      \* Network::init), run (event loop), re_init/re_wait (init on rematch),
                      \* closing/closed (Network::close), crashed (panic), off
    players,          \* PlayerHandler.players
    board,            \* MainState.board
    phase,            \* MainState.phase
    current_moves,    \* MainState.current_moves
    selected_square,  \* MainState.selected_square
    cache,            \* Network.cache: decoded packets not yet popped
    wire,             \* buffers written by the peer and not yet read by the receive thread
    thr,              \* the receive thread of spawn_thread
    link,             \* the connection as the process sees it: "up" or "reset"
    rematches,        \* rematches started so far
    outstanding,      \* history: Move packets sent and not yet answered by an Ack of the peer
    last,             \* history: the last step of the main thread
    net_pending,      \* history: Move packets popped minus network moves submitted
    net_applied       \* history: network moves applied since the last local move or new game

vars == <<game_type, pc, players, board, phase, current_moves, selected_square,
          cache, wire, thr, link, rematches, outstanding, last,
          net_pending, net_applied>>

ThreadReading == [pc |-> "read", pkt |-> NoPkt, err |-> FALSE]

ThreadOff == [pc |-> "off", pkt |-> NoPkt, err |-> FALSE]

\* PlayerHandler.network is Some
HasNetwork(p) == game_type[p] \in {"Host", "Client"}

\* PlayerHandler::can_move
can_move(p, color) ==
    IF game_type[p] = "Local" THEN TRUE
    ELSE get_player(players[p], color).local

\* PlayerHandler::both_local
both_local(p) == players[p].black.local /\ players[p].white.local

\* PlayerHandler::one_local
one_local(p) ==
    IF players[p].black.local THEN "Black"
    ELSE IF players[p].white.local THEN "White"
    ELSE None

\* Mutant: the one_local branch of the dispatch is missing.
LocalTurn_both_only(p) == both_local(p)

\* Mutant: the comparison with the board's turn is inverted.
LocalTurn_inverted(p) == both_local(p) \/ one_local(p) # board[p].turn

\* The branch of update's Phase::Move arm that calls client_move.
LocalTurn(p) == both_local(p) \/ one_local(p) = board[p].turn

\* End of update: current_moves is regenerated when it is None.
RefreshMoves(cm, b) == IF cm.some THEN cm ELSE SomeMoves(GenerateValidMoves(b))

\* Network::send: the write succeeds on a healthy link and panics otherwise.
SendOk(p) == link[p] = "up"

\* The peer's side of the connection after a write of p.  What is written to
\* a peer that is not this program leaves the model; last[p].sent records it.
Sent(p, pkt) ==
    IF game_type[Peer(p)] = "Peer" THEN wire
    ELSE [wire EXCEPT ![Peer(p)] = Append(@, Encode(pkt))]

\* ------------------------------------------------------------- handshake
\* Mutant: the Client, too, waits for a Start before it sends its own.
init_begin_wait_first(p) ==
    /\ pc[p] \in {"new_init", "re_init"}
    /\ HasNetwork(p)
    /\ pc' = [pc EXCEPT ![p] = IF @ = "new_init" THEN "new_wait" ELSE "re_wait"]
    /\ last' = [last EXCEPT ![p] = Step("init_begin", NoPkt)]
    /\ UNCHANGED <<game_type, players, board, phase, current_moves,
                   selected_square, cache, wire, thr, link, rematches,
                   outstanding, net_pending, net_applied>>

\* Network::init up to its blocking wait: the Client sends its Start first,
\* the Host only waits.
init_begin(p) ==
    /\ pc[p] \in {"new_init", "re_init"}
    /\ HasNetwork(p)
    /\ LET waiting == IF pc[p] = "new_init" THEN "new_wait" ELSE "re_wait"
       IN  IF game_type[p] = "Host"
           THEN /\ pc' = [pc EXCEPT ![p] = waiting]
                /\ last' = [last EXCEPT ![p] = Step("init_begin", NoPkt)]
                /\ UNCHANGED wire
           ELSE IF SendOk(p)
           THEN /\ pc' = [pc EXCEPT ![p] = waiting]
                /\ last' = [last EXCEPT
                              ![p] = Step("init_begin", InitStartPacket)]
                /\ wire' = Sent(p, InitStartPacket)
           ELSE /\ pc' = [pc EXCEPT ![p] = "crashed"]
                /\ last' = [last EXCEPT ![p] = Step("init_begin", NoPkt)]
                /\ UNCHANGED wire
    /\ UNCHANGED <<game_type, players, board, phase, current_moves,
                   selected_square, cache, thr, link, rematches, outstanding,
                   net_pending, net_applied>>

\* The Players record Network::init returns for a Start packet.
InitPlayers(p, start) ==
    IF game_type[p] = "Host" THEN HostPlayers(start) ELSE ClientPlayers(start)

\* Network::init from get_packet_blocking on: the head of the queue is
\* popped; anything but a Start panics; the Host then replies with its
\* Start.  PlayerHandler::new keeps the Players returned; the rematch call
\* in update drops them and goes on to the end of update.
init_recv(p) ==
    /\ pc[p] \in {"new_wait", "re_wait"}
    /\ cache[p] # <<>>
    /\ LET pkt == Head(cache[p])
           fresh == pc[p] = "new_wait"
           ok == pkt.kind = "Start" /\ (game_type[p] = "Host" => SendOk(p))
           sends == pkt.kind = "Start" /\ game_type[p] = "Host" /\ SendOk(p)
       IN  /\ cache' = [cache EXCEPT ![p] = Tail(@)]
           /\ pc' = [pc EXCEPT ![p] = IF ok THEN "run" ELSE "crashed"]
           /\ wire' = IF sends THEN Sent(p, InitStartPacket) ELSE wire
           /\ last' = [last EXCEPT
                         ![p] = [Step("init_recv",
                                      IF sends THEN InitStartPacket ELSE NoPkt)
                                   EXCEPT !.got = pkt]]
           /\ players' = IF ok /\ fresh
                         THEN [players EXCEPT ![p] = InitPlayers(p, pkt)]
                         ELSE players
           /\ current_moves' = IF ok /\ ~fresh
                               THEN [current_moves EXCEPT
                                       ![p] = RefreshMoves(@, board[p])]
                               ELSE current_moves
    /\ UNCHANGED <<game_type, board, phase, selected_square, thr, link,
                   rematches, outstanding, net_pending, net_applied>>

\* ------------------------------------------------------------- update
\* What the mouse gives a tick: no click, or a click on a board square.
Clicks == {NoSquare} \cup {SomeSquare(sq) : sq \in Squares}

\* MainState::client_move: the new phase and selection (panic: get_moves
\* unwraps a current_moves that is None).
ClientMove(p, click) ==
    LET sel == selected_square[p]
        cm == current_moves[p]
        stay == [phase |-> phase[p], sel |-> sel, panic |-> FALSE]
    IN  IF ~can_move(p, board[p].turn) THEN stay
        ELSE IF ~click.some THEN stay
        ELSE IF ~sel.some THEN [stay EXCEPT !.sel = SomeSquare(click.sq)]
        ELSE IF sel.sq = click.sq THEN [stay EXCEPT !.sel = NoSquare]
        ELSE IF ~cm.some THEN [stay EXCEPT !.panic = TRUE]
        ELSE LET found == {mv \in cm.moves :
                             mv.from = sel.sq /\ mv.to = click.sq}
             IN  IF found # {}
                 THEN [stay EXCEPT !.phase =
                         PhaseValidate(Builtin(CHOOSE mv \in found : TRUE))]
                 ELSE [stay EXCEPT !.sel = SomeSquare(click.sq)]

\* update, Phase::Move, the turn is the local player's: client_move.
client_move(p) ==
    /\ pc[p] = "run"
    /\ phase[p].tag = "Move"
    /\ LocalTurn(p)
    /\ \E click \in Clicks :
         LET r == ClientMove(p, click)
         IN  /\ phase' = [phase EXCEPT ![p] = r.phase]
             /\ selected_square' = [selected_square EXCEPT ![p] = r.sel]
             /\ pc' = [pc EXCEPT ![p] = IF r.panic THEN "crashed" ELSE @]
             /\ current_moves' =
                  IF r.panic THEN current_moves
                  ELSE [current_moves EXCEPT ![p] = RefreshMoves(@, board[p])]
    /\ last' = [last EXCEPT ![p] = Step("client_move", NoPkt)]
    /\ UNCHANGED <<game_type, players, board, cache, wire, thr, link,
                   rematches, outstanding, net_pending, net_applied>>

\* Mutant: the packet's move is wrapped as a locally selected move.
NetworkMovePhase_builtin(p, pkt) ==
    IF pkt.kind = "Move" THEN PhaseValidate(Builtin(pkt)) ELSE phase[p]

\* Mutant: an Ack carrying an end state ends the game, a refusing Ack
\* reopens validation.
NetworkMovePhase_trusts_ack(p, pkt) ==
    IF pkt.kind = "Move" THEN PhaseValidate(Network(pkt))
    ELSE IF pkt.kind = "Ack" /\ pkt.end_state # None THEN PhaseEnd("Checkmate")
    ELSE IF pkt.kind = "Ack" /\ ~pkt.ok THEN PhaseValidate(NoMove)
    ELSE phase[p]

\* Mutant: the Move arm of the match is missing.
NetworkMovePhase_drops_move(p, pkt) == phase[p]

\* MainState::network_move: the phase after popping pkt.
NetworkMovePhase(p, pkt) ==
    IF pkt.kind = "Move" THEN PhaseValidate(Network(pkt)) ELSE phase[p]

\* update, Phase::Move, the turn is not the local player's: network_move
\* pops at most one packet (Network::get_packet).
network_move(p) ==
    /\ pc[p] = "run"
    /\ phase[p].tag = "Move"
    /\ ~LocalTurn(p)
    /\ IF HasNetwork(p) /\ cache[p] # <<>>
       THEN LET pkt == Head(cache[p])
            IN  /\ cache' = [cache EXCEPT ![p] = Tail(@)]
                /\ phase' = [phase EXCEPT ![p] = NetworkMovePhase(p, pkt)]
                /\ net_pending' =
                     [net_pending EXCEPT
                        ![p] = IF pkt.kind = "Move" THEN @ + 1 ELSE @]
                /\ last' = [last EXCEPT
                              ![p] = [Step("network_move", NoPkt)
                                        EXCEPT !.got = pkt]]
       ELSE /\ last' = [last EXCEPT ![p] = Step("network_move", NoPkt)]
            /\ UNCHANGED <<cache, phase, net_pending>>
    /\ current_moves' = [current_moves EXCEPT ![p] = RefreshMoves(@, board[p])]
    /\ UNCHANGED <<game_type, pc, players, board, selected_square, wire, thr,
                   link, rematches, outstanding, net_applied>>

\* Mutant: a checkmate is not recognised as the end of the game.
EndState_no_mate(status) ==
    IF status = "Draw" THEN "Draw" ELSE None

\* Mutant: a draw is reported as a checkmate.
EndState_draw_as_mate(status) ==
    IF status \in {"Checkmate", "Draw"} THEN "CheckMate" ELSE None

\* client_validate: the end state reported for a status.
EndState(status) ==
    IF status = "Checkmate" THEN "CheckMate"
    ELSE IF status = "Draw" THEN "Draw"
    ELSE None

\* Mutant: a draw does not end the game.
ValidatePhase_no_draw(valid, status) ==
    IF valid /\ status = "Checkmate" THEN PhaseEnd(status) ELSE PhaseMove

\* client_validate: the phase it leaves.
ValidatePhase(valid, status) ==
    IF valid /\ EndState(status) # None THEN PhaseEnd(status) ELSE PhaseMove

\* Mutant: the Move packet carries the coordinates the wrong way round.
ValidatePacket_swapped(p, mv, current_turn, valid, end_state) ==
    IF ~valid THEN AckPkt(FALSE, None)
    ELSE IF one_local(p) = current_turn
    THEN MovePkt(mv.to, mv.from, "Queen")
    ELSE AckPkt(TRUE, end_state)

\* Mutant: a move received from the network is echoed as a Move packet.
ValidatePacket_echo(p, mv, current_turn, valid, end_state) ==
    IF ~valid THEN AckPkt(FALSE, None)
    ELSE MovePkt(mv.from, mv.to, "Queen")

\* Mutant: a rejected move is acknowledged as accepted.
ValidatePacket_reject_ok(p, mv, current_turn, valid, end_state) ==
    IF ~valid THEN AckPkt(TRUE, None)
    ELSE IF one_local(p) = current_turn
    THEN MovePkt(mv.from, mv.to, "Queen")
    ELSE AckPkt(TRUE, end_state)

\* Mutant: every accepted move is answered with an Ack.
ValidatePacket_ack_only(p, mv, current_turn, valid, end_state) ==
    IF ~valid THEN AckPkt(FALSE, None) ELSE AckPkt(TRUE, end_state)

\* client_validate: the packet it sends when there is a network.
ValidatePacket(p, mv, current_turn, valid, end_state) ==
    IF ~valid THEN AckPkt(FALSE, None)
    ELSE IF one_local(p) = current_turn
    THEN MovePkt(mv.from, mv.to, "Queen")
    ELSE AckPkt(TRUE, end_state)

\* client_validate: the board after move_piece and, when the engine awaits
\* a promotion, promote_piece.
ValidateBoard(b, mv) ==
    LET result == MovePiece(b, mv.from, mv.to)
    IN  IF result.valid /\ result.board.status = "AwaitingPromotion"
        THEN PromotePiece(result.board, promotion(mv))
        ELSE result.board

\* update, Phase::Validate(mv): client_validate.
client_validate(p) ==
    /\ pc[p] = "run"
    /\ phase[p].tag = "Validate"
    /\ LET mv == phase[p].mv
           current_turn == board[p].turn
           valid == MovePiece(board[p], mv.from, mv.to).valid
           b == ValidateBoard(board[p], mv)
           pkt == ValidatePacket(p, mv, current_turn, valid, EndState(b.status))
           panics == HasNetwork(p) /\ ~SendOk(p)
           sends == HasNetwork(p) /\ SendOk(p)
       IN  /\ board' = [board EXCEPT ![p] = b]
           /\ phase' = IF ~valid /\ panics THEN phase
                       ELSE [phase EXCEPT ![p] = ValidatePhase(valid, b.status)]
           /\ selected_square' =
                IF ~valid /\ panics THEN selected_square
                ELSE [selected_square EXCEPT ![p] = NoSquare]
           /\ current_moves' =
                IF ~valid THEN [current_moves EXCEPT
                                  ![p] = IF panics THEN @ ELSE RefreshMoves(@, b)]
                ELSE [current_moves EXCEPT
                        ![p] = IF panics THEN NoMoves
                               ELSE SomeMoves(GenerateValidMoves(b))]
           /\ pc' = [pc EXCEPT ![p] = IF panics THEN "crashed" ELSE @]
           /\ wire' = IF sends THEN Sent(p, pkt) ELSE wire
           /\ outstanding' =
                IF ~sends THEN outstanding
                ELSE IF pkt.kind = "Move"
                THEN [outstanding EXCEPT ![p] = @ + 1]
                ELSE [outstanding EXCEPT
                        ![Peer(p)] = IF @ > 0 THEN @ - 1 ELSE 0]
           /\ last' =
                [last EXCEPT
                   ![p] = [op |-> "client_validate",
                           sent |-> IF sends THEN pkt ELSE NoPkt,
                           got |-> NoPkt,
                           kind |-> mv.kind,
                           turn_local |->
                             get_player(players[p], current_turn).local,
                           valid |-> valid]]
           /\ net_pending' =
                [net_pending EXCEPT
                   ![p] = IF mv.kind = "Network" THEN @ - 1 ELSE @]
           /\ net_applied' =
                [net_applied EXCEPT
                   ![p] = IF ~valid THEN @
                          ELSE IF mv.kind = "Network" THEN @ + 1
                          ELSE 0]
    /\ UNCHANGED <<game_type, players, cache, thr, link, rematches>>

\* Mutant: the rematch keeps the finished board.
rematch_keeps_board(p) ==
    /\ pc[p] = "run"
    /\ phase[p].tag = "End"
    /\ rematches[p] < MaxRematch
    /\ rematches' = [rematches EXCEPT ![p] = @ + 1]
    /\ phase' = [phase EXCEPT ![p] = PhaseMove]
    /\ current_moves' = [current_moves EXCEPT ![p] = NoMoves]
    /\ pc' = [pc EXCEPT ![p] = IF HasNetwork(p) THEN "re_init" ELSE @]
    /\ net_applied' = [net_applied EXCEPT ![p] = 0]
    /\ last' = [last EXCEPT ![p] = Step("rematch", NoPkt)]
    /\ UNCHANGED <<game_type, players, board, selected_square, cache, wire,
                   thr, link, outstanding, net_pending>>

\* update, Phase::End, Space pressed: a fresh board, Phase::Move and, with a
\* network, Network::init again.
rematch(p) ==
    /\ pc[p] = "run"
    /\ phase[p].tag = "End"
    /\ rematches[p] < MaxRematch
    /\ rematches' = [rematches EXCEPT ![p] = @ + 1]
    /\ board' = [board EXCEPT ![p] = NewGame]
    /\ phase' = [phase EXCEPT ![p] = PhaseMove]
    /\ current_moves' =
         [current_moves EXCEPT
            ![p] = IF HasNetwork(p) THEN NoMoves
                   ELSE SomeMoves(GenerateValidMoves(NewGame))]
    /\ pc' = [pc EXCEPT ![p] = IF HasNetwork(p) THEN "re_init" ELSE @]
    /\ net_applied' = [net_applied EXCEPT ![p] = 0]
    /\ last' = [last EXCEPT ![p] = Step("rematch", NoPkt)]
    /\ UNCHANGED <<game_type, players, selected_square, cache, wire, thr,
                   link, outstanding, net_pending>>

\* update, Phase::End, Space not pressed: only the prompt text is set.
end_tick(p) ==
    /\ pc[p] = "run"
    /\ phase[p].tag = "End"
    /\ current_moves' = [current_moves EXCEPT ![p] = RefreshMoves(@, board[p])]
    /\ last' = [last EXCEPT ![p] = Step("end_tick", NoPkt)]
    /\ UNCHANGED <<game_type, pc, players, board, phase, selected_square,
                   cache, wire, thr, link, rematches, outstanding,
                   net_pending, net_applied>>

\* MainState::update
update(p) ==
    \/ client_move(p)
    \/ network_move(p)
    \/ client_validate(p)
    \/ end_tick(p)
    \/ rematch(p)

\* ------------------------------------------------------------- receive thread
\* spawn_thread, one turn of the loop up to the decode: a failed read is
\* skipped and the loop reads again; a buffer that does not decode panics
\* the thread (unwrap); a decoded packet is held for the push.
thread_read(p) ==
    /\ thr[p].pc = "read"
    /\ IF link[p] # "up"
       THEN /\ thr' = [thr EXCEPT ![p].err = TRUE]
            /\ UNCHANGED wire
       ELSE /\ wire[p] # <<>>
            /\ LET d == Decode(Head(wire[p]))
               IN  thr' = [thr EXCEPT
                             ![p].pc = IF d.ok THEN "push" ELSE "panicked",
                             ![p].pkt = d.pkt]
            /\ wire' = [wire EXCEPT ![p] = Tail(@)]
    /\ UNCHANGED <<game_type, pc, players, board, phase, current_moves,
                   selected_square, cache, link, rematches, outstanding,
                   last, net_pending, net_applied>>

\* Mutant: the packet is pushed at the front of the queue.
thread_push_front(p) ==
    /\ thr[p].pc = "push"
    /\ cache' = [cache EXCEPT ![p] = <<thr[p].pkt>> \o @]
    /\ thr' = [thr EXCEPT ![p].pc = "read", ![p].pkt = NoPkt]
    /\ UNCHANGED <<game_type, pc, players, board, phase, current_moves,
                   selected_square, wire, link, rematches, outstanding,
                   last, net_pending, net_applied>>

\* spawn_thread: cache.write().unwrap().push_back(packet)
thread_push(p) ==
    /\ thr[p].pc = "push"
    /\ cache' = [cache EXCEPT ![p] = Append(@, thr[p].pkt)]
    /\ thr' = [thr EXCEPT ![p].pc = "read", ![p].pkt = NoPkt]
    /\ UNCHANGED <<game_type, pc, players, board, phase, current_moves,
                   selected_square, wire, link, rematches, outstanding,
                   last, net_pending, net_applied>>

\* ------------------------------------------------------------- two peers
\* A Host and a Client connected to each other, both about to call
\* Network::init from PlayerHandler::new.
Init ==
    /\ game_type = [p \in Procs |-> IF p = "p1" THEN "Host" ELSE "Client"]
    /\ pc = [p \in Procs |-> "new_init"]
    /\ players = [p \in Procs |-> NoPlayers]
    /\ board = [p \in Procs |-> NewGame]
    /\ phase = [p \in Procs |-> PhaseMove]
    /\ current_moves = [p \in Procs |-> NoMoves]
    /\ selected_square = [p \in Procs |-> NoSquare]
    /\ cache = [p \in Procs |-> <<>>]
    /\ wire = [p \in Procs |-> <<>>]
    /\ thr = [p \in Procs |-> ThreadReading]
    /\ link = [p \in Procs |-> "up"]
    /\ rematches = [p \in Procs |-> 0]
    /\ outstanding = [p \in Procs |-> 0]
    /\ last = [p \in Procs |-> NoStep]
    /\ net_pending = [p \in Procs |-> 0]
    /\ net_applied = [p \in Procs |-> 0]

Next ==
    \E p \in Procs :
        \/ init_begin(p)
        \/ init_recv(p)
        \/ update(p)
        \/ thread_read(p)
        \/ thread_push(p)

Spec == Init /\ [][Next]_vars

\* The same two processes on a working link with fair scheduling: the event
\* loop calls update on every frame, get_packet_blocking spins until the
\* queue has a packet, and the receive threads keep running.  The users are
\* under no obligation to click or to press Space.
SpecFair ==
    /\ Init
    /\ [][Next]_vars
    /\ \A p \in Procs :
         /\ WF_vars(init_begin(p))
         /\ WF_vars(init_recv(p))
         /\ WF_vars(network_move(p))
         /\ WF_vars(client_validate(p))
         /\ WF_vars(thread_read(p))
         /\ WF_vars(thread_push(p))

\* ------------------------------------------------------------- every game type
\* One process started without flags (GameType::Local): PlayerHandler::new
\* builds no Network and takes both players as local; MainState::new leaves
\* it in Phase::Move with current_moves = None.
InitLocal ==
    /\ game_type = [p \in Procs |-> IF p = "p1" THEN "Local" ELSE "Peer"]
    /\ pc = [p \in Procs |-> IF p = "p1" THEN "run" ELSE "off"]
    /\ players = [p \in Procs |-> IF p = "p1" THEN LocalPlayers ELSE NoPlayers]
    /\ board = [p \in Procs |-> NewGame]
    /\ phase = [p \in Procs |-> PhaseMove]
    /\ current_moves = [p \in Procs |-> NoMoves]
    /\ selected_square = [p \in Procs |-> NoSquare]
    /\ cache = [p \in Procs |-> <<>>]
    /\ wire = [p \in Procs |-> <<>>]
    /\ thr = [p \in Procs |-> ThreadOff]
    /\ link = [p \in Procs |-> "up"]
    /\ rematches = [p \in Procs |-> 0]
    /\ outstanding = [p \in Procs |-> 0]
    /\ last = [p \in Procs |-> NoStep]
    /\ net_pending = [p \in Procs |-> 0]
    /\ net_applied = [p \in Procs |-> 0]

\* The program started in any of its three game types: a Host and a Client
\* connected to each other, or one Local process.
SpecModes == (Init \/ InitLocal) /\ [][Next]_vars

\* ------------------------------------------------------------- one process, any peer
\* The peer is not this program: it may write any buffer and reset the
\* connection.
IsPeer(q) == game_type[q] = "Peer"

PeerMoves ==
    {MovePkt(WhiteHome, QuietSq, None), MovePkt(BlackHome, MateSq, None),
     MovePkt(BlackHome, PromoSq, None), MovePkt(WhiteHome, PromoSq, "Rook")}

PeerPackets ==
    {StartPkt(TRUE), StartPkt(FALSE), AckPkt(TRUE, None), AckPkt(FALSE, None),
     AckPkt(TRUE, "CheckMate")}
        \cup PeerMoves

PeerBuffers == {Encode(pkt) : pkt \in PeerPackets} \cup {Garbage}

\* Buffers on their way to p that the update loop has not popped yet.
Inbound(p) ==
    Len(wire[p]) + Len(cache[p]) + (IF thr[p].pc = "push" THEN 1 ELSE 0)

peer_write(p) ==
    /\ IsPeer(Peer(p))
    /\ link[p] = "up"
    /\ Inbound(p) < MaxQueue
    /\ \E data \in PeerBuffers : wire' = [wire EXCEPT ![p] = Append(@, data)]
    /\ UNCHANGED <<game_type, pc, players, board, phase, current_moves,
                   selected_square, cache, thr, link, rematches, outstanding,
                   last, net_pending, net_applied>>

\* The connection fails: from now on reads and writes of p return Err.
peer_reset(p) ==
    /\ IsPeer(Peer(p))
    /\ link[p] = "up"
    /\ link' = [link EXCEPT ![p] = "reset"]
    /\ UNCHANGED <<game_type, pc, players, board, phase, current_moves,
                   selected_square, cache, wire, thr, rematches, outstanding,
                   last, net_pending, net_applied>>

InitAdv ==
    /\ game_type \in {[p \in Procs |-> IF p = "p1" THEN gt ELSE "Peer"] :
                        gt \in {"Host", "Client"}}
    /\ pc = [p \in Procs |-> IF p = "p1" THEN "new_init" ELSE "off"]
    /\ players = [p \in Procs |-> NoPlayers]
    /\ board = [p \in Procs |-> NewGame]
    /\ phase = [p \in Procs |-> PhaseMove]
    /\ current_moves = [p \in Procs |-> NoMoves]
    /\ selected_square = [p \in Procs |-> NoSquare]
    /\ cache = [p \in Procs |-> <<>>]
    /\ wire = [p \in Procs |-> <<>>]
    /\ thr = [p \in Procs |-> IF p = "p1" THEN ThreadReading ELSE ThreadOff]
    /\ link = [p \in Procs |-> "up"]
    /\ rematches = [p \in Procs |-> 0]
    /\ outstanding = [p \in Procs |-> 0]
    /\ last = [p \in Procs |-> NoStep]
    /\ net_pending = [p \in Procs |-> 0]
    /\ net_applied = [p \in Procs |-> 0]

\* The user plays one game (Space is not pressed in Phase::End).
NextAdv ==
    \/ init_begin("p1")
    \/ init_recv("p1")
    \/ client_move("p1")
    \/ network_move("p1")
    \/ client_validate("p1")
    \/ end_tick("p1")
    \/ thread_read("p1")
    \/ thread_push("p1")
    \/ peer_write("p1")
    \/ peer_reset("p1")

SpecAdv == InitAdv /\ [][NextAdv]_vars

\* ------------------------------------------------------------- fair ticks, any packet order
\* The peer writes well-formed Start, Ack and Move packets in any order on a
\* working link.
PollMoves ==
    {MovePkt(WhiteHome, QuietSq, None), MovePkt(BlackHome, QuietSq, None)}

PollPackets == {StartPkt(TRUE), AckPkt(TRUE, None)} \cup PollMoves

poll_write(p) ==
    /\ IsPeer(Peer(p))
    /\ Inbound(p) < MaxQueue
    /\ \E pkt \in PollPackets :
         wire' = [wire EXCEPT ![p] = Append(@, Encode(pkt))]
    /\ UNCHANGED <<game_type, pc, players, board, phase, current_moves,
                   selected_square, cache, thr, link, rematches, outstanding,
                   last, net_pending, net_applied>>

NextPoll ==
    \/ init_begin("p1")
    \/ init_recv("p1")
    \/ client_move("p1")
    \/ network_move("p1")
    \/ client_validate("p1")
    \/ end_tick("p1")
    \/ thread_read("p1")
    \/ thread_push("p1")
    \/ poll_write("p1")

\* The event loop calls update on every frame and the receive thread keeps
\* running; the user and the peer are under no obligation.
SpecPoll ==
    /\ InitAdv
    /\ [][NextPoll]_vars
    /\ WF_vars(init_begin("p1"))
    /\ WF_vars(init_recv("p1"))
    /\ WF_vars(network_move("p1"))
    /\ WF_vars(client_validate("p1"))
    /\ WF_vars(thread_read("p1"))
    /\ WF_vars(thread_push("p1"))

\* ------------------------------------------------------------- the link alone
\* Network::close: the owner's handles are dropped (the thread keeps its own
\* clone of the stream), then the thread is joined.
close_call(p) ==
    /\ pc[p] = "api"
    /\ pc' = [pc EXCEPT ![p] = "closing"]
    /\ last' = [last EXCEPT ![p] = Step("close", NoPkt)]
    /\ UNCHANGED <<game_type, players, board, phase, current_moves,
                   selected_square, cache, wire, thr, link, rematches,
                   outstanding, net_pending, net_applied>>

\* thread_handle.join().unwrap(): returns once the thread has ended, and
\* panics when the thread ended by a panic.
close_join(p) ==
    /\ pc[p] = "closing"
    /\ thr[p].pc \notin {"read", "push"}
    /\ pc' = [pc EXCEPT ![p] = IF thr[p].pc = "panicked" THEN "crashed"
                                ELSE "closed"]
    /\ UNCHANGED <<game_type, players, board, phase, current_moves,
                   selected_square, cache, wire, thr, link, rematches,
                   outstanding, last, net_pending, net_applied>>

\* A Network just built by new_host or new_client, whose owner only closes it.
InitLink ==
    /\ game_type \in {[p \in Procs |-> IF p = "p1" THEN gt ELSE "Peer"] :
                        gt \in {"Host", "Client"}}
    /\ pc = [p \in Procs |-> IF p = "p1" THEN "api" ELSE "off"]
    /\ players = [p \in Procs |-> NoPlayers]
    /\ board = [p \in Procs |-> NewGame]
    /\ phase = [p \in Procs |-> PhaseMove]
    /\ current_moves = [p \in Procs |-> NoMoves]
    /\ selected_square = [p \in Procs |-> NoSquare]
    /\ cache = [p \in Procs |-> <<>>]
    /\ wire = [p \in Procs |-> <<>>]
    /\ thr = [p \in Procs |-> IF p = "p1" THEN ThreadReading ELSE ThreadOff]
    /\ link = [p \in Procs |-> "up"]
    /\ rematches = [p \in Procs |-> 0]
    /\ outstanding = [p \in Procs |-> 0]
    /\ last = [p \in Procs |-> NoStep]
    /\ net_pending = [p \in Procs |-> 0]
    /\ net_applied = [p \in Procs |-> 0]

NextLink ==
    \/ thread_read("p1")
    \/ thread_push("p1")
    \/ peer_write("p1")
    \/ peer_reset("p1")
    \/ close_call("p1")
    \/ close_join("p1")

\* The scheduler runs the receive thread and the closing owner whenever they
\* can take a step; the peer is under no obligation.
SpecLink ==
    /\ InitLink
    /\ [][NextLink]_vars
    /\ WF_vars(thread_read("p1"))
    /\ WF_vars(thread_push("p1"))
    /\ WF_vars(close_join("p1"))

\* ------------------------------------------------------------- the codec on the link
\* Packets of every kind with boundary values: files and ranks 0 and 7,
\* promotion and end state absent or present, both values of every flag.
CodecSquares == {<<0, 0>>, <<0, 7>>, <<7, 7>>}

CodecPackets ==
    {StartPkt(b) : b \in BOOLEAN}
      \cup {MovePkt(f, t, pr) :
               f \in CodecSquares, t \in CodecSquares, pr \in {None, "Queen"}}
      \cup {[MovePkt(<<7, 0>>, <<0, 0>>, None)
               EXCEPT !.forfeit = b, !.offer_draw = ~b] : b \in BOOLEAN}
      \cup {AckPkt(ok, es) :
               ok \in BOOLEAN, es \in {None, "CheckMate", "Draw"}}

\* Buffers more than one schema parses: the fields of a Start together with
\* those of an Ack, and the fields of a Move together with those of an Ack.
StartAckBuffer == EncodeStart(StartPkt(TRUE)) @@ EncodeAck(AckPkt(FALSE, None))

MoveAckBuffer ==
    EncodeMove(MovePkt(<<0, 0>>, <<7, 7>>, None)) @@ EncodeAck(AckPkt(TRUE, None))

CodecBuffers ==
    {Encode(pkt) : pkt \in CodecPackets}
      \cup {StartAckBuffer, MoveAckBuffer, Garbage}

\* The peer writes one buffer.
codec_write(p) ==
    /\ IsPeer(Peer(p))
    /\ link[p] = "up"
    /\ Inbound(p) < MaxQueue
    /\ \E data \in CodecBuffers : wire' = [wire EXCEPT ![p] = Append(@, data)]
    /\ UNCHANGED <<game_type, pc, players, board, phase, current_moves,
                   selected_square, cache, thr, link, rematches, outstanding,
                   last, net_pending, net_applied>>

NextCodec ==
    \/ codec_write("p1")
    \/ thread_read("p1")
    \/ thread_push("p1")

\* A Network just built, fed with encoded packets by its peer.
SpecCodec == InitLink /\ [][NextCodec]_vars

\* ------------------------------------------------------------- properties
\* The pairing the handshake is to produce: the Host plays White, the Client
\* Black.
Negotiated(p) ==
    IF game_type[p] = "Host" THEN MkPlayers(TRUE, FALSE)
    ELSE MkPlayers(FALSE, TRUE)

\* PlayerHandler::new has returned.
Constructed(p) == pc[p] \in {"run", "re_init", "re_wait"}

\* No packet is in flight or queued.
Quiescent ==
    \A p \in Procs : wire[p] = <<>> /\ cache[p] = <<>> /\ thr[p].pc # "push"

\* C1: once Network::init has returned on a process, the Host has White
\* local and Black remote and the Client has Black local and White remote,
\* in every interleaving of the two handshakes; and the Host's assignment
\* is the same for either is_white value of the Start it received.
C1_HandshakePairing ==
    /\ \A p \in Procs : Constructed(p) => players[p] = Negotiated(p)
    /\ \A p \in Procs : players[p] \in {NoPlayers, Negotiated(p)}
    /\ \A b \in BOOLEAN : HostPlayers(StartPkt(b)) = MkPlayers(TRUE, FALSE)

C1_Witness ==
    /\ \A p \in Procs : pc[p] = "run" /\ players[p] = Negotiated(p)
    /\ \A p \in Procs : rematches[p] = 0 /\ board[p] = NewGame

\* C2: whenever both processes are in Phase::Move or Phase::End and no
\* packet is in flight or queued, the two boards (turn, status and the
\* sequence of applied moves) are equal.
C2_BoardsAgree ==
    (/\ \A p \in Procs : pc[p] # "crashed" /\ phase[p].tag \in {"Move", "End"}
     /\ Quiescent)
        => board["p1"] = board["p2"]

C2_Witness ==
    /\ Quiescent
    /\ \A p \in Procs : pc[p] = "run" /\ phase[p].tag = "Move"
    /\ board["p1"] = board["p2"]
    /\ Len(board["p1"].hist) >= 2

\* C3 (as claimed): the negotiation re-run on a rematch completes without a
\* crash on both sides.
C3_RematchNeverCrashes ==
    (\A p \in Procs : rematches[p] > 0) => (\A p \in Procs : pc[p] # "crashed")

\* C4: at most one Move packet of a process is unacknowledged, and a process
\* hands a locally selected move to the rules engine only when none of its
\* Move packets is unacknowledged.
C4_OneMoveInFlight ==
    \A p \in Procs :
        /\ outstanding[p] <= 1
        /\ (phase[p].tag = "Validate" /\ phase[p].mv.kind = "Builtin")
               => outstanding[p] = 0

C4_Witness ==
    /\ outstanding["p1"] = 1
    /\ rematches["p1"] = 0
    /\ Len(board["p1"].hist) = 3

\* C5: however the peer queues its Move packets, at most one network move is
\* applied between two local moves, every popped Move packet is handed to
\* the rules engine exactly once, and the tick that validates a move pops
\* nothing, so a second queued Move stays in the queue.  (A process that
\* panicked in send_packet keeps its last phase and applies nothing more.)
C5_NoDoubleApply ==
    /\ [](\A p \in Procs :
            /\ net_applied[p] <= 1
            /\ net_pending[p] <= 1
            /\ pc[p] # "crashed" =>
                 net_pending[p] =
                   IF phase[p].tag = "Validate" /\ phase[p].mv.kind = "Network"
                   THEN 1 ELSE 0)
    /\ [][\A p \in Procs :
            last'[p].op = "client_validate" /\ last[p].op # "client_validate"
                => cache'[p] = cache[p]]_vars

C5_Witness ==
    /\ net_applied["p1"] = 1
    /\ last["p1"].op = "client_validate"
    /\ last["p1"].kind = "Network"
    /\ last["p1"].valid
    /\ cache["p1"] # <<>>
    /\ Head(cache["p1"]).kind = "Move"

\* C6 (as claimed): no move is handed to the rules engine while the player
\* holding the board's turn is remote.
C6_NoSubmitOnRemoteTurn ==
    \A p \in Procs : last[p].op = "client_validate" => last[p].turn_local

\* C6 (amended): no locally selected move (MoveKind::Builtin) is handed to
\* the rules engine while the player holding the board's turn is remote.
C6_NoLocalSubmitOnRemoteTurn ==
    \A p \in Procs :
        (last[p].op = "client_validate" /\ last[p].kind = "Builtin")
            => last[p].turn_local

C6_Witness ==
    /\ last["p2"].op = "client_validate"
    /\ last["p2"].kind = "Builtin"
    /\ last["p2"].turn_local
    /\ last["p2"].valid

\* The step is client_validate of p rejecting a move received from the peer,
\* on a link whose writes succeed.
RejectStep(p) ==
    /\ pc[p] = "run"
    /\ phase[p].tag = "Validate"
    /\ phase[p].mv.kind = "Network"
    /\ ~MovePiece(board[p], phase[p].mv.from, phase[p].mv.to).valid
    /\ link[p] = "up"
    /\ last'[p].op = "client_validate"
    /\ last[p].op # "client_validate"

C8_LinkFailureIsTerminal ==
    [][\A p \in Procs :
         (thr[p].err /\ pc[p] = "run")
            => (pc'[p] = "crashed" \/ phase'[p] = phase[p])]_vars

\* C9 (as claimed): the receive loop has ended once a read has failed.
C9_LoopEndsOnReadError ==
    \A p \in Procs : thr[p].err => thr[p].pc \notin {"read", "push"}

\* C10 (as claimed): a call of Network::close eventually returns.
C10_CloseReturns == (pc["p1"] = "closing") ~> (pc["p1"] = "closed")

\* The packets on their way to get_packet of p, oldest first: the queue, the
\* packet the receive thread has decoded and not yet pushed, and the buffers
\* the live thread will decode next.
RECURSIVE DecodablePrefix(_)
DecodablePrefix(w) ==
    IF w = <<>> \/ ~Decode(Head(w)).ok THEN <<>>
    ELSE <<Decode(Head(w)).pkt>> \o DecodablePrefix(Tail(w))

InboundPackets(p) ==
    cache[p]
      \o (IF thr[p].pc = "push" THEN <<thr[p].pkt>> ELSE <<>>)
      \o (IF thr[p].pc \in {"read", "push"} THEN DecodablePrefix(wire[p])
          ELSE <<>>)

\* C11: under every interleaving of the receive thread and the update loop
\* the inbound packets behave as one FIFO queue: a step leaves them as they
\* are, adds one packet at the tail (an arrival), or removes the head, and
\* then the head is the packet get_packet returned.  Nothing is lost,
\* duplicated or reordered.
C11_QueueIsFifo ==
    [][\A p \in Procs :
         LET q == InboundPackets(p)
             r == InboundPackets(p)'
         IN  \/ r = q
             \/ Len(r) = Len(q) + 1 /\ SubSeq(r, 1, Len(q)) = q
             \/ q # <<>> /\ r = Tail(q) /\ last'[p].got = Head(q)]_vars

C11_Witness ==
    /\ last["p1"].op = "network_move"
    /\ last["p1"].got.kind = "Ack"
    /\ Len(cache["p1"]) = 1
    /\ thr["p1"].pc = "push"
    /\ cache["p1"][1] # thr["p1"].pkt

\* C12: in a networked session a move the rules engine accepted is followed
\* by one packet: the Move packet of that move when the colour that moved
\* is the local player's, an Ack with ok = true otherwise; a move received
\* from the network is never answered with a Move packet.
C12_OnePacketPerAppliedMove ==
    \A p \in Procs :
        (HasNetwork(p) /\ last[p].op = "client_validate" /\ last[p].valid)
            => LET sent == last[p].sent
                   applied == board[p].hist[Len(board[p].hist)]
               IN  /\ sent.kind = IF last[p].turn_local THEN "Move" ELSE "Ack"
                   /\ sent.kind = "Move"
                        => sent.from = applied.from /\ sent.to = applied.to
                   /\ sent.kind = "Ack" => sent.ok
                   /\ last[p].kind = "Network" => sent.kind # "Move"

C12_Witness ==
    /\ last["p1"].op = "client_validate"
    /\ last["p1"].kind = "Network"
    /\ last["p1"].valid
    /\ last["p1"].sent = AckPkt(TRUE, None)
    /\ Len(board["p1"].hist) = 2
    /\ Len(wire["p2"]) = 1

\* The step is client_validate of p on a locally selected move, and p is
\* still running after it.
MoverStep(p) ==
    /\ pc[p] = "run"
    /\ phase[p].tag = "Validate"
    /\ phase[p].mv.kind = "Builtin"
    /\ last'[p].op = "client_validate"
    /\ last[p].op # "client_validate"
    /\ pc'[p] = "run"

\* The step pops an Ack from the queue of the running process p.
AckPopStep(p) ==
    /\ pc[p] = "run"
    /\ cache[p] # <<>>
    /\ Head(cache[p]).kind = "Ack"
    /\ cache'[p] = Tail(cache[p])

\* C13: the mover leaves Phase::Validate on the tick that submits its move,
\* to the phase its own rules engine's result determines, without popping
\* anything and whatever the queue holds; an Ack popped later, accepting
\* or refusing, changes neither the phase nor the board nor the players.
C13_OwnEngineDecides ==
    [][\A p \in Procs :
         /\ MoverStep(p) =>
               LET mv == phase[p].mv
                   result == MovePiece(board[p], mv.from, mv.to)
               IN  /\ phase'[p] =
                        ValidatePhase(result.valid,
                                      ValidateBoard(board[p], mv).status)
                   /\ phase'[p].tag # "Validate"
                   /\ cache'[p] = cache[p]
         /\ AckPopStep(p) =>
               /\ phase'[p] = phase[p]
               /\ board'[p] = board[p]
               /\ players'[p] = players[p]]_vars

C13_Witness ==
    /\ game_type["p1"] = "Host"
    /\ pc["p1"] = "run"
    /\ last["p1"].op = "network_move"
    /\ last["p1"].got = AckPkt(FALSE, None)
    /\ Len(board["p1"].hist) = 1
    /\ phase["p1"] = PhaseMove

\* C14: from Phase::End a step of the process is either the rematch, which
\* installs a fresh board and Phase::Move, or leaves the phase and the board
\* as they are, submits nothing to the rules engine, pops nothing from the
\* queue and writes nothing to the peer.
C14_EndIsQuiet ==
    [][\A p \in Procs :
         (pc[p] = "run" /\ phase[p].tag = "End")
            => IF rematches'[p] # rematches[p]
               THEN board'[p] = NewGame /\ phase'[p] = PhaseMove
               ELSE /\ phase'[p] = phase[p]
                    /\ board'[p] = board[p]
                    /\ pc'[p] = "run"
                    /\ last'[p].op \in {last[p].op, "end_tick"}
                    /\ last'[p].op = "end_tick"
                         => last'[p].sent = NoPkt /\ last'[p].got = NoPkt
                    /\ Len(cache'[p]) >= Len(cache[p])
                    /\ Len(wire'[Peer(p)]) <= Len(wire[Peer(p)])]_vars

C14_Witness ==
    /\ pc["p2"] = "run"
    /\ phase["p2"] = PhaseEnd("Checkmate")
    /\ last["p2"].op = "end_tick"
    /\ cache["p2"] # <<>>
    /\ rematches["p1"] = 1

\* A process whose own rules engine has seen the checkmate in the first game.
MatedOn(p) == rematches[p] = 0 /\ board[p].status = "Checkmate"

\* The process is in Phase::End for a checkmate, or was and has started a
\* rematch since.
EndedByMate(p) == phase[p] = PhaseEnd("Checkmate") \/ rematches[p] > 0

\* C15: a process is in Phase::End exactly when its own rules engine's board
\* is finished, with that board's status, and it got there by a
\* client_validate step of its own (not by popping an Ack); and once one
\* side's engine has reported checkmate for a move, both processes reach
\* Phase::End for a checkmate.
C15_MateEndsBothSides ==
    /\ [](\A p \in Procs :
            (pc[p] = "run" /\ rematches[p] = 0)
               => /\ phase[p].tag = "End"
                      <=> board[p].status \in {"Checkmate", "Draw"}
                  /\ phase[p].tag = "End"
                      => phase[p].status = board[p].status)
    /\ [][\A p \in Procs :
            (phase[p].tag # "End" /\ phase'[p].tag = "End")
               => /\ last'[p].op = "client_validate"
                  /\ cache'[p] = cache[p]]_vars
    /\ ((\E p \in Procs : MatedOn(p)) ~> (\A p \in Procs : EndedByMate(p)))

C15_Witness ==
    /\ \A p \in Procs : phase[p] = PhaseEnd("Checkmate") /\ pc[p] = "run"
    /\ last["p1"].kind = "Builtin"
    /\ last["p2"].kind = "Network"
    /\ last["p2"].sent = AckPkt(TRUE, "CheckMate")
    /\ thr["p1"].pc = "read"
    /\ cache["p1"] = <<>>
    /\ wire["p1"] # <<>>

\* The number of local players of a Players record.
LocalCount(pl) ==
    (IF pl.white.local THEN 1 ELSE 0) + (IF pl.black.local THEN 1 ELSE 0)

\* C16: once PlayerHandler::new has returned, and through every rematch,
\* the Players record of a Host or a Client has exactly one local and one
\* remote player, and that of a Local process has two local players.
C16_PlayersShape ==
    \A p \in Procs :
        Constructed(p) =>
            /\ players[p].white.color = "White"
            /\ players[p].black.color = "Black"
            /\ LocalCount(players[p]) = IF game_type[p] = "Local" THEN 2 ELSE 1

C16_Witness ==
    /\ game_type["p1"] = "Host"
    /\ rematches["p1"] = 1
    /\ pc["p1"] = "re_wait"
    /\ LocalCount(players["p1"]) = 1
    /\ phase["p2"].tag = "End"
    /\ LocalCount(players["p2"]) = 1

\* C17: a Local process only ever runs client_move, client_validate and
\* the End arm of update: it is never inside Network::init, at startup or
\* on rematch; it writes no packet and pops none; either colour may move
\* from the mouse, and every move under validation is a locally selected
\* one.
C17_LocalModeIsOffline ==
    \A p \in Procs :
        game_type[p] = "Local" =>
            /\ pc[p] = "run"
            /\ \A c \in Colors : can_move(p, c)
            /\ LocalTurn(p)
            /\ last[p].op \in {"none", "client_move", "client_validate",
                                "end_tick", "rematch"}
            /\ last[p].sent = NoPkt /\ last[p].got = NoPkt
            /\ wire[Peer(p)] = <<>> /\ cache[p] = <<>>
            /\ phase[p].tag = "Validate" => phase[p].mv.kind = "Builtin"

C17_Witness ==
    /\ game_type["p1"] = "Local"
    /\ rematches["p1"] = 1
    /\ last["p1"].op = "client_validate"
    /\ last["p1"].kind = "Builtin"
    /\ last["p1"].valid
    /\ Len(board["p1"].hist) = 2
    /\ board["p1"].hist[2].from = BlackHome

\* The receive thread of p decodes the head of the wire in this step.
DecodeStep(p) ==
    /\ thr[p].pc = "read"
    /\ link[p] = "up"
    /\ wire[p] # <<>>
    /\ thr'[p] # thr[p]

\* C18: decoding the encoding of a packet gives the packet back, with its
\* kind, for Start, Move and Ack packets with boundary squares, absent
\* promotion and absent end state; a buffer two schemas parse is decoded by
\* the first of Start, Move, Ack that parses, and a buffer none parses is an
\* error; and what the receive thread hands to the queue for an encoded
\* packet is that packet.
C18_CodecRoundTrip ==
    /\ [](\A pkt \in CodecPackets :
            Decode(Encode(pkt)) = [ok |-> TRUE, pkt |-> pkt])
    /\ [](/\ Decode(StartAckBuffer) = [ok |-> TRUE, pkt |-> StartPkt(TRUE)]
          /\ Decode(MoveAckBuffer) =
               [ok |-> TRUE, pkt |-> MovePkt(<<0, 0>>, <<7, 7>>, None)]
          /\ ~Decode(Garbage).ok)
    /\ [][\A p \in Procs :
            DecodeStep(p) =>
               /\ \A pkt \in CodecPackets :
                    Head(wire[p]) = Encode(pkt)
                       => thr'[p].pc = "push" /\ thr'[p].pkt = pkt
               /\ Head(wire[p]) = Garbage => thr'[p].pc = "panicked"]_vars

C18_Witness ==
    /\ thr["p1"].pc = "push"
    /\ thr["p1"].pkt = MovePkt(<<0, 0>>, <<7, 7>>, None)
    /\ cache["p1"] = <<AckPkt(TRUE, None)>>

\* Nothing written by the peer of p has reached p or is on its way to p.
NothingSentTo(p) ==
    wire[p] = <<>> /\ cache[p] = <<>> /\ thr[p].pc = "read"

\* C19: in the initial negotiation the Host writes nothing before it has
\* popped a Start, the Client has written its Start by the time it waits,
\* and on a working link with fair scheduling Network::init returns on both
\* sides; the Client takes Black when the reply's is_white is true and
\* White when it is false.
C19_HandshakeCompletes ==
    /\ [](\A p \in Procs :
            /\ (game_type[p] = "Host" /\ pc[p] \in {"new_init", "new_wait"})
                  => NothingSentTo(Peer(p))
            /\ (game_type[p] = "Client" /\ pc[p] = "new_wait")
                  => last[p] = Step("init_begin", InitStartPacket))
    /\ [](/\ ClientPlayers(StartPkt(TRUE)) = MkPlayers(FALSE, TRUE)
          /\ ClientPlayers(StartPkt(FALSE)) = MkPlayers(TRUE, FALSE))
    /\ \A p \in Procs : <>(pc[p] = "run" /\ rematches[p] = 0)

C19_Witness ==
    /\ \A p \in Procs : pc[p] = "run" /\ rematches[p] = 0
    /\ last["p1"] = [Step("init_recv", InitStartPacket)
                       EXCEPT !.got = InitStartPacket]
    /\ last["p2"].op = "init_recv"
    /\ players["p2"] = ClientPlayers(last["p2"].got)

\* The step is the tick of p that starts in Phase::Validate, and p is still
\* running after it.
ValidateTick(p) ==
    /\ pc[p] = "run"
    /\ phase[p].tag = "Validate"
    /\ last'[p].op = "client_validate"
    /\ last[p].op # "client_validate"
    /\ pc'[p] = "run"

\* C20: the tick that starts in Phase::Validate(mv) hands mv to the rules
\* engine once (an accepted move is the one new entry of the board's
\* history, a rejected one leaves the board as it was) and ends in
\* Phase::End exactly when the move was accepted and the resulting status
\* is checkmate or draw, in Phase::Move otherwise, never in Phase::Validate.
C20_ValidateTick ==
    [][\A p \in Procs :
         ValidateTick(p) =>
            LET mv == phase[p].mv
                accepted == MovePiece(board[p], mv.from, mv.to).valid
                n == Len(board[p].hist)
            IN  /\ phase'[p].tag \in {"Move", "End"}
                /\ phase'[p].tag = "End"
                     <=> (accepted
                            /\ board'[p].status \in {"Checkmate", "Draw"})
                /\ phase'[p].tag = "End"
                     => phase'[p].status = board'[p].status
                /\ last'[p].valid = accepted
                /\ accepted
                     => /\ Len(board'[p].hist) = n + 1
                        /\ SubSeq(board'[p].hist, 1, n) = board[p].hist
                        /\ board'[p].hist[n + 1].from = mv.from
                        /\ board'[p].hist[n + 1].to = mv.to
                /\ ~accepted => board'[p] = board[p]]_vars

C20_Witness ==
    /\ pc["p1"] = "run"
    /\ last["p1"].op = "client_validate"
    /\ last["p1"].valid
    /\ phase["p1"] = PhaseEnd("Draw")
    /\ last["p1"].kind = "Network"

\* C21: a locally selected move completes a pending promotion with a Queen
\* and its Move packet carries promotion = Queen; a move received from the
\* peer completes a pending promotion with the piece the packet names, and
\* with a Queen when the packet names none; a move that raises no promotion
\* records none.
C21_PromotionPiece ==
    [][\A p \in Procs :
         ValidateTick(p) =>
            LET mv == phase[p].mv
                result == MovePiece(board[p], mv.from, mv.to)
                pending == result.valid
                             /\ result.board.status = "AwaitingPromotion"
                n == Len(board[p].hist)
            IN  /\ (result.valid /\ mv.kind = "Builtin" /\ HasNetwork(p))
                      => /\ last'[p].sent.kind = "Move"
                         /\ last'[p].sent.promotion = "Queen"
                /\ (pending /\ mv.kind = "Builtin")
                      => board'[p].hist[n + 1].promo = "Queen"
                /\ (pending /\ mv.kind = "Network")
                      => board'[p].hist[n + 1].promo =
                           IF mv.promotion = None THEN "Queen"
                           ELSE mv.promotion
                /\ (result.valid /\ ~pending)
                      => board'[p].hist[n + 1].promo = None]_vars

C21_Witness ==
    /\ pc["p1"] = "run"
    /\ Len(board["p1"].hist) = 2
    /\ board["p1"].hist[1].promo = "Rook"
    /\ board["p1"].hist[2].promo = "Queen"
    /\ last["p1"].op = "client_validate"
    /\ last["p1"].sent = MovePkt(BlackHome, PromoSq, "Queen")

\* The player holding the turn of p's board is local on p.
TurnIsLocal(p) == get_player(players[p], board[p].turn).local

\* C22: in a networked session a move under validation has the origin its
\* turn's owner dictates: a locally selected move is held and submitted
\* only on the local player's turn, a move taken from a packet only on the
\* remote player's turn.
C22_OriginMatchesTurn ==
    \A p \in Procs :
        HasNetwork(p) =>
            /\ (pc[p] = "run" /\ phase[p].tag = "Validate")
                  => (phase[p].mv.kind = "Builtin" <=> TurnIsLocal(p))
            /\ last[p].op = "client_validate"
                  => /\ last[p].kind \in {"Builtin", "Network"}
                     /\ last[p].kind = "Builtin" <=> last[p].turn_local

C22_Witness ==
    /\ game_type["p1"] = "Client"
    /\ players["p1"] = MkPlayers(TRUE, FALSE)
    /\ last["p1"].op = "client_validate"
    /\ last["p1"].kind = "Network"
    /\ last["p1"].valid
    /\ ~last["p1"].turn_local
    /\ board["p1"].hist[Len(board["p1"].hist)].from = BlackHome

\* The process is polling: running, in Phase::Move, on the remote player's
\* turn.
Polling(p) == pc[p] = "run" /\ phase[p] = PhaseMove /\ ~TurnIsLocal(p)

\* The packet is somewhere in the queue of the running process p.
Queued(p, pkt) ==
    pc[p] = "run" /\ \E i \in 1..Len(cache[p]) : cache[p][i] = pkt

\* C23: during play the queue of a process shrinks only by network_move
\* taking its head, one packet in a tick, in Phase::Move on the remote
\* player's turn; a Start or an Ack taken changes nothing else, a Move
\* taken becomes the candidate of Phase::Validate; and with fair ticks a
\* polling process does not keep polling with a Move packet left at any
\* depth of its queue: the packet becomes the candidate, unless the turn or
\* the phase changes first.
C23_RemoteTurnPolling ==
    /\ [][\A p \in Procs :
            (pc[p] = "run" /\ Len(cache'[p]) < Len(cache[p]))
               => /\ phase[p] = PhaseMove
                  /\ ~TurnIsLocal(p)
                  /\ cache'[p] = Tail(cache[p])
                  /\ last'[p].op = "network_move"
                  /\ last'[p].got = Head(cache[p])
                  /\ board'[p] = board[p]
                  /\ players'[p] = players[p]
                  /\ selected_square'[p] = selected_square[p]
                  /\ phase'[p] =
                       IF Head(cache[p]).kind = "Move"
                       THEN PhaseValidate(Network(Head(cache[p])))
                       ELSE PhaseMove]_vars
    /\ \A pkt \in PollMoves :
          (Polling("p1") /\ Queued("p1", pkt))
             ~> (phase["p1"] = PhaseValidate(Network(pkt)) \/ ~Polling("p1"))

C23_Witness ==
    /\ pc["p1"] = "run"
    /\ phase["p1"] = PhaseMove
    /\ last["p1"].op = "network_move"
    /\ last["p1"].got = StartPkt(TRUE)
    /\ Len(cache["p1"]) = 1
    /\ cache["p1"][1].kind = "Move"
    /\ ~TurnIsLocal("p1")

\* C24: an Ack sent with ok = true names CheckMate exactly when the sender's
\* board is checkmate after the move, Draw exactly when it is drawn, and no
\* end state otherwise, and the sender is in Phase::End after the tick
\* exactly when the Ack names an end state; an Ack sent with ok = false
\* names no end state.
C24_AckEndState ==
    \A p \in Procs :
        (last[p].op = "client_validate" /\ last[p].sent.kind = "Ack")
            => LET ack == last[p].sent
                   status == board[p].status
               IN  IF ack.ok
                   THEN /\ last[p].valid
                        /\ ack.end_state = "CheckMate" <=> status = "Checkmate"
                        /\ ack.end_state = "Draw" <=> status = "Draw"
                        /\ ack.end_state \in {"CheckMate", "Draw", None}
                        /\ phase[p].tag = "End" <=> ack.end_state # None
                   ELSE /\ ~last[p].valid
                        /\ ack.end_state = None
                        /\ phase[p] = PhaseMove

C24_Witness ==
    /\ last["p1"].op = "client_validate"
    /\ last["p1"].sent = AckPkt(TRUE, "Draw")
    /\ board["p1"].status = "Draw"
    /\ phase["p1"] = PhaseEnd("Draw")
    /\ board["p1"].hist[Len(board["p1"].hist)].promo = "Rook"

====
